---- MODULE Spec2Model ----
(***************************************************************************)
(* Model of the plugin connection router of gcli2api                       *)
(* (src/src/panel/plugin.py): the shared-secret check, the credential      *)
(* intake update_token with its project_id dedup scan, and the             *)
(* check_tokens refresh-state query.                                       *)
(*                                                                         *)
(* Representation.  A Python str is a sequence of one-character strings,   *)
(* so startswith, endswith, slicing and concatenation are computed as the  *)
(* code computes them.  A Python dict is a function whose DOMAIN is the    *)
(* set of its keys.  An expiry text is a sequence of lexical tokens        *)
(* (see fromisoformat).  The `mode` value is only ever compared, and is a  *)
(* plain TLA+ string.                                                      *)
(***************************************************************************)
EXTENDS Integers, Sequences, FiniteSets, TLC

VARIABLES
    plugin_token,   \* config "plugin_connection_token" ("" = not configured)
    store,          \* mode -> listing (in list_credentials order) of stored entries
    now,            \* the clock, whole seconds (time.time() / datetime.now(utc))
    last,           \* the request handled last, when, and the response it got
    calls           \* the intakes in flight between their scan and their write

vars == <<plugin_token, store, now, last, calls>>

(***************************************************************************)
(* Bounds of the model.                                                    *)
(***************************************************************************)
MaxFiles == 2       \* entries the store may hold, all partitions together
MaxTime == 1        \* last value of the clock
MaxFaults == 1      \* store reads of one request that do not return a record

(***************************************************************************)
(* Strings and dicts.                                                      *)
(***************************************************************************)
EmptyStr == <<>>
EmptyDict == [k \in {} |-> k]

StartsWith(s, p) == Len(s) >= Len(p) /\ SubSeq(s, 1, Len(p)) = p
EndsWith(s, p) == Len(s) >= Len(p) /\ SubSeq(s, Len(s) - Len(p) + 1, Len(s)) = p
Slice(s, k) == SubSeq(s, k + 1, Len(s))                \* s[k:]

Get(d, k, default) == IF k \in DOMAIN d THEN d[k] ELSE default   \* d.get(k, default)
Has(d, k) == k \in DOMAIN d /\ d[k] # <<>>                       \* bool(d.get(k))

Digit(n) == CASE n = 0 -> "0" [] n = 1 -> "1" [] n = 2 -> "2" [] n = 3 -> "3"
              [] n = 4 -> "4" [] n = 5 -> "5" [] n = 6 -> "6" [] n = 7 -> "7"
              [] n = 8 -> "8" [] n = 9 -> "9"

RECURSIVE IntToStr(_)
IntToStr(n) == IF n < 10 THEN <<Digit(n)>>
               ELSE IntToStr(n \div 10) \o <<Digit(n % 10)>>

BEARER == <<"B", "e", "a", "r", "e", "r", " ">>
JSON_SUFFIX == <<".", "j", "s", "o", "n">>
PLUGIN == <<"p", "l", "u", "g", "i", "n">>
DASH == <<"-">>
Modes == {"geminicli", "antigravity"}
cred_keys == {"client_id", "client_secret", "refresh_token", "token",
              "access_token", "scopes", "token_uri", "project_id", "expiry"}

(***************************************************************************)
(* The secret a request presents (update_token lines 94-97, check_tokens   *)
(* lines 190-193): the body's token field, replaced by the text after      *)
(* "Bearer " when the Authorization header starts with it.                 *)
(***************************************************************************)
PresentedNoHeader(auth, body) == Get(body, "token", EmptyStr)
PresentedToken(auth, body) ==
    IF StartsWith(auth, BEARER) THEN Slice(auth, 7)
    ELSE Get(body, "token", EmptyStr)

\* not req_token or req_token != plugin_token  (lines 99, 194)
Rejected(req_token) == req_token = EmptyStr \/ req_token # plugin_token

(***************************************************************************)
(* update_token lines 103-108: the nested credential when it is truthy,    *)
(* otherwise the body's recognised fields with truthy values.              *)
(***************************************************************************)
Flattened(body) ==
    [k \in {c \in DOMAIN body \cap cred_keys : body[c] # <<>>} |-> body[k]]

Candidate(body) ==
    IF "credential" \in DOMAIN body /\ DOMAIN body["credential"] # {}
    THEN body["credential"]
    ELSE Flattened(body)

\* lines 114-116
MissingIdentityOnlyClient(credential) == ~Has(credential, "client_id")
MissingIdentity(credential) ==
    ~Has(credential, "refresh_token") \/ ~Has(credential, "client_id")

\* lines 122-124 and 197-199
ResolveModeSticky(body) ==
    LET mode == Get(body, "mode", "geminicli")
    IN  IF mode \notin {"geminicli", "antigravity"} THEN "antigravity" ELSE mode
ResolveMode(body) ==
    LET mode == Get(body, "mode", "geminicli")
    IN  IF mode \notin {"geminicli", "antigravity"} THEN "geminicli" ELSE mode

\* lines 127-135
ResolveFilename(body, credential, ts) ==
    LET given == Get(body, "filename", EmptyStr)
        project_id == Get(credential, "project_id", PLUGIN)
        name == Get(body, "name", EmptyStr)
        prefix == IF name # EmptyStr THEN name \o DASH ELSE EmptyStr
        filename == IF given = EmptyStr
                    THEN prefix \o project_id \o DASH \o IntToStr(ts) \o JSON_SUFFIX
                    ELSE given
    IN  IF ~EndsWith(filename, JSON_SUFFIX) THEN filename \o JSON_SUFFIX ELSE filename

(***************************************************************************)
(* The store (src.storage_adapter, src.credential_manager: not under       *)
(* src/).  A partition is the sequence of its entries in listing order,    *)
(* each a filename, its credential record and its runtime state.  The      *)
(* read of listed entry i in a request returns what is stored ("ok"),      *)
(* returns nothing ("none") or raises ("raise"), as the request's `reads`  *)
(* says.                                                                   *)
(***************************************************************************)
list_credentials(mode) == [i \in 1..Len(store[mode]) |-> store[mode][i].name]

IndexOf(mode, filename) ==
    LET hits == {i \in 1..Len(store[mode]) : store[mode][i].name = filename}
    IN  IF hits = {} THEN 0 ELSE CHOOSE i \in hits : TRUE

get_credential(filename, mode) == store[mode][IndexOf(mode, filename)].cred
get_credential_state(filename, mode) == store[mode][IndexOf(mode, filename)].state

StoreSize == Len(store["geminicli"]) + Len(store["antigravity"])

\* add_credential / add_antigravity_credential: overwrite-by-filename
add_credential(mode, filename, credential) ==
    LET i == IndexOf(mode, filename)
    IN  IF i = 0
        THEN [store EXCEPT ![mode] =
                 Append(@, [name |-> filename, cred |-> credential, state |-> EmptyDict])]
        ELSE [store EXCEPT ![mode][i].cred = credential]

(***************************************************************************)
(* The dedup scan, lines 143-154: the first listed entry whose read         *)
(* returns a record with the pushed project_id; a read that raises is       *)
(* skipped.                                                                 *)
(***************************************************************************)
MatchesAnyRecord(mode, reads, i, project_id) ==
    /\ reads[i] = "ok"
    /\ DOMAIN get_credential(list_credentials(mode)[i], mode) # {}
Matches(mode, reads, i, project_id) ==
    LET existing_data == get_credential(list_credentials(mode)[i], mode)
    IN  /\ reads[i] = "ok"
        /\ DOMAIN existing_data # {}
        /\ "project_id" \in DOMAIN existing_data
        /\ existing_data["project_id"] = project_id

RECURSIVE ScanStopAtRaise(_, _, _, _, _)
ScanStopAtRaise(mode, reads, project_id, filename, i) ==
    IF i > Len(list_credentials(mode)) \/ reads[i] = "raise"
    THEN [filename |-> filename, updated_existing |-> FALSE]
    ELSE IF Matches(mode, reads, i, project_id)
         THEN [filename |-> list_credentials(mode)[i], updated_existing |-> TRUE]
         ELSE ScanStopAtRaise(mode, reads, project_id, filename, i + 1)
ScanLast(mode, reads, project_id, filename, i) ==
    LET hits == {j \in i..Len(list_credentials(mode)) : Matches(mode, reads, j, project_id)}
    IN  IF hits = {}
        THEN [filename |-> filename, updated_existing |-> FALSE]
        ELSE [filename |-> list_credentials(mode)[CHOOSE j \in hits : \A k \in hits : k <= j],
              updated_existing |-> TRUE]
RECURSIVE ScanFrom(_, _, _, _, _)
ScanFrom(mode, reads, project_id, filename, i) ==
    IF i > Len(list_credentials(mode))
    THEN [filename |-> filename, updated_existing |-> FALSE]
    ELSE IF Matches(mode, reads, i, project_id)
         THEN [filename |-> list_credentials(mode)[i], updated_existing |-> TRUE]
         ELSE ScanFrom(mode, reads, project_id, filename, i + 1)

DedupNoRetarget(mode, reads, project_id, filename) ==
    [filename |-> filename,
     updated_existing |-> /\ project_id # EmptyStr
                          /\ ScanFrom(mode, reads, project_id, filename, 1).updated_existing]
DedupNoScan(mode, reads, project_id, filename) ==
    [filename |-> filename, updated_existing |-> FALSE]
Dedup(mode, reads, project_id, filename) ==
    IF project_id # EmptyStr
    THEN ScanFrom(mode, reads, project_id, filename, 1)
    ELSE [filename |-> filename, updated_existing |-> FALSE]

\* line 162
ActionLabelSwapped(updated_existing) == IF updated_existing THEN "created" ELSE "updated"
ActionLabel(updated_existing) == IF updated_existing THEN "updated" ELSE "created"

(***************************************************************************)
(* Responses.                                                              *)
(***************************************************************************)
NoRequest == [auth |-> EmptyStr, parsable |-> FALSE, body |-> EmptyDict]

Response(op, req, reads, status) ==
    [op |-> op, req |-> req, reads |-> reads, at |-> now, status |-> status,
     action |-> "", filename |-> EmptyStr, tokens |-> <<>>, emails |-> <<>>,
     enabled |-> FALSE]

(***************************************************************************)
(* POST /api/plugin/update-token, lines 84-171.                            *)
(***************************************************************************)
update_token(req, reads) ==
    /\ UNCHANGED <<plugin_token, now, calls>>
    /\ IF ~req.parsable
       THEN /\ last' = Response("update_token", req, <<>>, 400)
            /\ UNCHANGED store
       ELSE IF plugin_token = EmptyStr
       THEN /\ last' = Response("update_token", req, <<>>, 503)
            /\ UNCHANGED store
       ELSE IF Rejected(PresentedToken(req.auth, req.body))
       THEN /\ last' = Response("update_token", req, <<>>, 401)
            /\ UNCHANGED store
       ELSE LET body == req.body
                credential == Candidate(body)
            IN  IF DOMAIN credential = {} \/ MissingIdentity(credential)
                THEN /\ last' = Response("update_token", req, <<>>, 400)
                     /\ UNCHANGED store
                ELSE LET mode == ResolveMode(body)
                         project_id == Get(credential, "project_id", EmptyStr)
                         d == Dedup(mode, reads, project_id,
                                    ResolveFilename(body, credential, now))
                         scanned == IF project_id # EmptyStr THEN reads ELSE <<>>
                     IN  /\ IndexOf(mode, d.filename) = 0 => StoreSize < MaxFiles
                         /\ store' = add_credential(mode, d.filename, credential)
                         /\ last' = [Response("update_token", req, scanned, 200)
                                       EXCEPT !.action = ActionLabel(d.updated_existing),
                                              !.filename = d.filename]

(***************************************************************************)
(* update_token as the event loop runs it: every store call is awaited     *)
(* (lines 138, 139, 146, 158, 160), so other requests run between the scan *)
(* of one intake and its write.  scan_update_token is lines 84-154 of a    *)
(* push that passes the checks, write_update_token lines 156-171.  A call  *)
(* also notes, for the properties, whether another call stood between its  *)
(* scan and its write when this one scanned (`raced`) and whether the      *)
(* partition then held a record with the pushed project_id (`held`).       *)
(***************************************************************************)
Procs == {1, 2}

NoCall == [pc |-> "idle", req |-> NoRequest, reads |-> <<>>, mode |-> "geminicli",
           credential |-> EmptyDict, filename |-> EmptyStr, updated_existing |-> FALSE,
           action |-> "", raced |-> FALSE, held |-> FALSE]
NoCalls == [p \in Procs |-> NoCall]

scan_update_token(p, req, reads) ==
    LET body == req.body
        credential == Candidate(body)
        mode == ResolveMode(body)
        project_id == Get(credential, "project_id", EmptyStr)
        d == Dedup(mode, reads, project_id, ResolveFilename(body, credential, now))
    IN  /\ calls[p].pc = "idle"
        /\ req.parsable
        /\ plugin_token # EmptyStr
        /\ ~Rejected(PresentedToken(req.auth, body))
        /\ DOMAIN credential # {} /\ ~MissingIdentity(credential)
        /\ calls' = [calls EXCEPT ![p] =
               [pc |-> "scanned", req |-> req, reads |-> reads, mode |-> mode,
                credential |-> credential, filename |-> d.filename,
                updated_existing |-> d.updated_existing, action |-> "",
                raced |-> \E q \in Procs \ {p} : calls[q].pc = "scanned",
                held |-> \E i \in 1..Len(store[mode]) :
                            project_id = Get(store[mode][i].cred, "project_id", EmptyStr)]]
        /\ UNCHANGED <<plugin_token, store, now, last>>

write_update_token_rescan(p) ==
    LET c == calls[p]
        d == Dedup(c.mode, [i \in 1..Len(store[c.mode]) |-> "ok"],
                   Get(c.credential, "project_id", EmptyStr), c.filename)
    IN  /\ c.pc = "scanned"
        /\ IndexOf(c.mode, d.filename) = 0 => StoreSize < MaxFiles
        /\ store' = add_credential(c.mode, d.filename, c.credential)
        /\ last' = [Response("update_token", c.req, c.reads, 200)
                      EXCEPT !.action = ActionLabel(d.updated_existing),
                             !.filename = d.filename]
        /\ calls' = [calls EXCEPT ![p].pc = "done",
                                  ![p].filename = d.filename,
                                  ![p].action = ActionLabel(d.updated_existing)]
        /\ UNCHANGED <<plugin_token, now>>
write_update_token(p) ==
    LET c == calls[p]
    IN  /\ c.pc = "scanned"
        /\ IndexOf(c.mode, c.filename) = 0 => StoreSize < MaxFiles
        /\ store' = add_credential(c.mode, c.filename, c.credential)
        /\ last' = [Response("update_token", c.req, c.reads, 200)
                      EXCEPT !.action = ActionLabel(c.updated_existing),
                             !.filename = c.filename]
        /\ calls' = [calls EXCEPT ![p].pc = "done",
                                  ![p].action = ActionLabel(c.updated_existing)]
        /\ UNCHANGED <<plugin_token, now>>

(***************************************************************************)
(* Expiry texts.  An ISO-8601 text is modelled by its lexical tokens: a    *)
(* date-time token "dt" carrying the instant its digits denote (seconds,   *)
(* read in the text's own offset), a UTC-offset token "off" carrying the   *)
(* offset in seconds, the letter "Z", or a token "junk" for any other      *)
(* characters.                                                             *)
(***************************************************************************)
DT(n) == [k |-> "dt", v |-> n]
OFF(n) == [k |-> "off", v |-> n]
ZED == [k |-> "Z", v |-> 0]
JUNK == [k |-> "junk", v |-> 0]

\* expiry.replace("Z", "+00:00"), line 220
ReplaceZ(text) == [i \in 1..Len(text) |-> IF text[i] = ZED THEN OFF(0) ELSE text[i]]

\* datetime.fromisoformat, line 220: a date-time, optionally followed by an
\* offset; anything else raises ValueError.
fromisoformat(text) ==
    IF Len(text) = 1 /\ text[1].k = "dt"
    THEN [error |-> FALSE, aware |-> FALSE, utc |-> text[1].v]
    ELSE IF Len(text) = 2 /\ text[1].k = "dt" /\ text[2].k = "off"
    THEN [error |-> FALSE, aware |-> TRUE, utc |-> text[1].v - text[2].v]
    ELSE [error |-> TRUE, aware |-> FALSE, utc |-> 0]

RefreshWindow == 300    \* line 223

(***************************************************************************)
(* check_tokens lines 213-227.  `cred` is what get_credential returned;    *)
(* nothing (None) is the empty dict here, both being falsy at line 215.    *)
(* Subtracting an offset-aware `now` from a naive date-time raises         *)
(* TypeError, which line 224 catches like a parse error.                   *)
(***************************************************************************)
NeedsRefresh(cred) ==
    IF DOMAIN cred = {} THEN FALSE
    ELSE LET expiry == Get(cred, "expiry", <<>>)
             exp_dt == fromisoformat(ReplaceZ(expiry))
         IN  IF expiry = <<>> THEN TRUE
             ELSE IF exp_dt.error \/ ~exp_dt.aware THEN TRUE
             ELSE exp_dt.utc - now < RefreshWindow

\* lines 207-235: the summary of listed entry i
Summary(mode, reads, i) ==
    LET f == list_credentials(mode)[i]
        state == get_credential_state(f, mode)
        cred == IF reads[i] = "none" THEN EmptyDict ELSE get_credential(f, mode)
    IN  [filename |-> f,
         email |-> Get(state, "user_email", EmptyStr),
         is_active |-> ~Get(state, "disabled", FALSE),
         needs_refresh |-> NeedsRefresh(cred),
         error_codes |-> Get(state, "error_codes", <<>>)]

\* lines 204-237: one summary per listed entry whose reads did not raise
RECURSIVE SummariesKeepRaised(_, _, _)
SummariesKeepRaised(mode, reads, i) ==
    IF i > Len(list_credentials(mode)) THEN <<>>
    ELSE <<Summary(mode, reads, i)>> \o SummariesKeepRaised(mode, reads, i + 1)
RECURSIVE Summaries(_, _, _)
Summaries(mode, reads, i) ==
    IF i > Len(list_credentials(mode)) THEN <<>>
    ELSE IF reads[i] = "raise" THEN Summaries(mode, reads, i + 1)
    ELSE <<Summary(mode, reads, i)>> \o Summaries(mode, reads, i + 1)

\* lines 242-244
Flagged(t) == t.needs_refresh /\ t.is_active /\ t.email # EmptyStr
RECURSIVE needs_refresh_emails_any(_)
needs_refresh_emails_any(tokens) ==
    IF tokens = <<>> THEN <<>>
    ELSE (IF tokens[1].needs_refresh /\ tokens[1].email # EmptyStr
          THEN <<tokens[1].email>> ELSE <<>>)
         \o needs_refresh_emails_any(Tail(tokens))
RECURSIVE needs_refresh_emails(_)
needs_refresh_emails(tokens) ==
    IF tokens = <<>> THEN <<>>
    ELSE (IF Flagged(tokens[1]) THEN <<tokens[1].email>> ELSE <<>>)
         \o needs_refresh_emails(Tail(tokens))

(***************************************************************************)
(* POST /api/plugin/check-tokens, lines 174-245.  A body that does not     *)
(* parse is read as {} (lines 180-183).                                    *)
(***************************************************************************)
check_tokens_pruning(req, reads) ==
    /\ UNCHANGED <<plugin_token, now, calls>>
    /\ LET body == IF req.parsable THEN req.body ELSE EmptyDict
       IN  IF plugin_token = EmptyStr
           THEN /\ last' = Response("check_tokens", req, <<>>, 503)
                /\ UNCHANGED store
           ELSE IF Rejected(PresentedToken(req.auth, body))
           THEN /\ last' = Response("check_tokens", req, <<>>, 401)
                /\ UNCHANGED store
           ELSE LET mode == ResolveMode(body)
                    tokens == Summaries(mode, reads, 1)
                IN  /\ last' = [Response("check_tokens", req, reads, 200)
                                  EXCEPT !.tokens = tokens,
                                         !.emails = needs_refresh_emails(tokens)]
                    /\ store' = [store EXCEPT ![mode] =
                                   SelectSeq(@, LAMBDA e :
                                       \E k \in 1..Len(tokens) : tokens[k].filename = e.name)]
check_tokens(req, reads) ==
    /\ UNCHANGED <<plugin_token, now, store, calls>>
    /\ LET body == IF req.parsable THEN req.body ELSE EmptyDict
       IN  IF plugin_token = EmptyStr
           THEN last' = Response("check_tokens", req, <<>>, 503)
           ELSE IF Rejected(PresentedToken(req.auth, body))
           THEN last' = Response("check_tokens", req, <<>>, 401)
           ELSE LET mode == ResolveMode(body)
                    tokens == Summaries(mode, reads, 1)
                IN  last' = [Response("check_tokens", req, reads, 200)
                               EXCEPT !.tokens = tokens,
                                      !.emails = needs_refresh_emails(tokens)]

(***************************************************************************)
(* GET /api/plugin/status, lines 248-255.                                  *)
(***************************************************************************)
plugin_status ==
    /\ UNCHANGED <<plugin_token, now, store, calls>>
    /\ last' = [Response("plugin_status", NoRequest, <<>>, 200)
                  EXCEPT !.enabled = plugin_token # EmptyStr]

Tick ==
    /\ now < MaxTime
    /\ now' = now + 1
    /\ UNCHANGED <<plugin_token, store, last, calls>>

(***************************************************************************)
(* Inputs.                                                                 *)
(***************************************************************************)
SECRET == <<"S">>
WRONG == <<"W">>
CID == <<"c">>
RTOK == <<"r">>
P1 == <<"p">>
P2 == <<"q">>
E1 == <<"x">>
E2 == <<"y">>

Opt(k, vs) == {EmptyDict} \cup {k :> v : v \in vs}
Identity == ("client_id" :> CID) @@ ("refresh_token" :> RTOK)

\* What the reads of the n listed entries do in one request: at most MaxFaults
\* of them end in one of `faults` instead of returning the record.
ReadOutcomes(n, faults) ==
    {f \in [1..n -> {"ok"} \cup faults] :
        Cardinality({i \in 1..n : f[i] # "ok"}) <= MaxFaults}

\* The reads the dedup scan of an intake may make: one per listed entry of
\* the resolved mode when the candidate has a project_id, else none.
ScanLength(req) ==
    IF Has(Candidate(req.body), "project_id")
    THEN Len(store[ResolveMode(req.body)]) ELSE 0

Request(auth, body) == [auth |-> auth, parsable |-> TRUE, body |-> body]
Malformed(auth) == [auth |-> auth, parsable |-> FALSE, body |-> EmptyDict]

\* Intake bodies of Spec, authenticated by the body's token field: nested
\* credentials with and without a supplied filename, one for the antigravity
\* mode, one with an empty project_id, a flattened one, and ones lacking an
\* identity field or any credential at all.
NestedCreds == {Identity @@ ("project_id" :> p) : p \in {P1, P2}}
BadCreds == {"refresh_token" :> RTOK,
             ("client_id" :> CID) @@ ("refresh_token" :> EmptyStr) @@ ("project_id" :> P1)}

IntakeBodies ==
    {("token" :> SECRET) @@ ("credential" :> c) @@ f :
        c \in NestedCreds, f \in Opt("filename", {<<"a">>})}
    \cup {("token" :> SECRET) @@ ("credential" :> (Identity @@ ("project_id" :> P1)))
            @@ ("mode" :> "antigravity"),
          ("token" :> SECRET) @@ ("credential" :> (Identity @@ ("project_id" :> EmptyStr))),
          ("token" :> SECRET) @@ Identity @@ ("project_id" :> P1)}
    \cup {("token" :> SECRET) @@ ("credential" :> c) : c \in BadCreds}
    \cup {("token" :> SECRET) @@ ("client_id" :> CID) @@ ("project_id" :> P2)}

\* ... and two presenting the secret in the Authorization header
IntakeRequests ==
    {Request(EmptyStr, b) : b \in IntakeBodies}
    \cup {Request(BEARER \o SECRET, "credential" :> EmptyDict),
          Malformed(BEARER \o SECRET)}

(***************************************************************************)
(* Spec: intake pushes, one at a time, against a store that starts empty.  *)
(***************************************************************************)
NoResponse == Response("none", NoRequest, <<>>, 0)

Init ==
    /\ plugin_token = SECRET
    /\ store = [m \in Modes |-> <<>>]
    /\ now = 0
    /\ last = NoResponse
    /\ calls = NoCalls

Next ==
    \/ \E req \in IntakeRequests :
         \E reads \in ReadOutcomes(ScanLength(req), {"raise"}) :
            update_token(req, reads)
    \/ Tick

Spec == Init /\ [][Next]_vars

(***************************************************************************)
(* SpecQuery: queries against stores whose records carry the kinds of      *)
(* expiry text and of runtime state the code distinguishes.  Entry i of a  *)
(* listing is named f<i>.json.                                             *)
(***************************************************************************)
RuntimeState(email, disabled) == ("user_email" :> email) @@ ("disabled" :> disabled)
WithExpiry(text) == Identity @@ ("expiry" :> text)

QueryEntries ==
    {[cred |-> Identity,                            state |-> RuntimeState(E1, FALSE)],
     [cred |-> WithExpiry(EmptyStr),                state |-> RuntimeState(E2, FALSE)],
     [cred |-> WithExpiry(<<JUNK>>),                state |-> RuntimeState(E1, FALSE)],
     [cred |-> WithExpiry(<<DT(900)>>),             state |-> RuntimeState(E2, FALSE)],
     [cred |-> WithExpiry(<<DT(299), ZED>>),        state |-> RuntimeState(E1, FALSE)],
     [cred |-> WithExpiry(<<DT(299), ZED>>),        state |-> RuntimeState(E1, TRUE)],
     [cred |-> WithExpiry(<<DT(300), ZED>>),        state |-> RuntimeState(E1, FALSE)],
     [cred |-> WithExpiry(<<DT(300), OFF(0)>>),     state |-> EmptyDict],
     [cred |-> WithExpiry(<<DT(3900), OFF(3600)>>), state |-> RuntimeState(EmptyStr, FALSE)],
     [cred |-> WithExpiry(<<DT(900), ZED>>),        state |-> RuntimeState(E2, FALSE)]}

FileName(i) == <<"f">> \o IntToStr(i) \o JSON_SUFFIX

Listings ==
    UNION {{[i \in 1..n |-> [name |-> FileName(i), cred |-> e[i].cred, state |-> e[i].state]] :
               e \in [1..n -> QueryEntries]} : n \in 0..MaxFiles}

QueryRequests == {Request(EmptyStr, "token" :> SECRET)}

InitQuery ==
    /\ plugin_token = SECRET
    /\ \E l \in Listings : store = [m \in Modes |-> IF m = "geminicli" THEN l ELSE <<>>]
    /\ now = 0
    /\ last = NoResponse
    /\ calls = NoCalls

NextQuery ==
    \/ \E req \in QueryRequests :
         \E reads \in ReadOutcomes(Len(store[ResolveMode(req.body)]), {"none", "raise"}) :
            check_tokens(req, reads)
    \/ Tick

SpecQuery == InitQuery /\ [][NextQuery]_vars

(***************************************************************************)
(* SpecAuth: every way of presenting a secret, to a server with and        *)
(* without a configured one.                                               *)
(***************************************************************************)
AuthHeaders == {EmptyStr, BEARER \o SECRET, BEARER \o WRONG, BEARER,
                <<"b", "e", "a", "r", "e", "r", " ">> \o SECRET}
TokenFields == Opt("token", {SECRET, WRONG, EmptyStr})

AuthIntakeRequests ==
    {Request(h, t @@ c) : h \in AuthHeaders, t \in TokenFields,
                          c \in {EmptyDict, Identity @@ ("project_id" :> P1)}}
    \cup {Malformed(h) : h \in AuthHeaders}

AuthQueryRequests ==
    {Request(h, t @@ m) : h \in AuthHeaders, t \in TokenFields,
                          m \in Opt("mode", {"antigravity", "other"})}
    \cup {Malformed(h) : h \in AuthHeaders}

InitAuth ==
    /\ plugin_token \in {EmptyStr, SECRET}
    /\ store = [m \in Modes |-> <<>>]
    /\ now = 0
    /\ last = NoResponse
    /\ calls = NoCalls

NextAuth ==
    \/ \E req \in AuthIntakeRequests :
         \E reads \in ReadOutcomes(ScanLength(req), {"raise"}) :
            update_token(req, reads)
    \/ \E req \in AuthQueryRequests :
         \E reads \in ReadOutcomes(Len(store[ResolveMode(req.body)]), {"none", "raise"}) :
            check_tokens(req, reads)
    \/ plugin_status

SpecAuth == InitAuth /\ [][NextAuth]_vars

(***************************************************************************)
(* Vocabulary of the properties.  A step is an intake step when the        *)
(* response it leaves is update_token's (the clock stands still in it).    *)
(***************************************************************************)
IntakeStep == now' = now /\ last'.op = "update_token"

Pushed(r) == Candidate(r.req.body)                       \* the pushed record
PushedPid(r) == Get(Pushed(r), "project_id", EmptyStr)
PushedMode(r) == ResolveMode(r.req.body)
\* an authenticated push of a record with both identity fields
ValidPush(r) ==
    /\ r.req.parsable
    /\ plugin_token # EmptyStr
    /\ PresentedToken(r.req.auth, r.req.body) = plugin_token
    /\ Has(Pushed(r), "client_id") /\ Has(Pushed(r), "refresh_token")
ReadsOk(r) == \A i \in DOMAIN r.reads : r.reads[i] = "ok"

PidOf(entry) == Get(entry.cred, "project_id", EmptyStr)
WithPid(listing, pid) == {i \in 1..Len(listing) : PidOf(listing[i]) = pid}
Holds(listing, filename, credential) ==
    \E i \in 1..Len(listing) : listing[i].name = filename /\ listing[i].cred = credential
UniquePids(st) ==
    \A m \in Modes : \A i, j \in 1..Len(st[m]) :
        (i # j /\ PidOf(st[m][i]) # EmptyStr) => PidOf(st[m][i]) # PidOf(st[m][j])

\* C1: a valid push with a non-empty project_id that no record of the
\* resolved mode has is answered "created", and the mode's listing then
\* holds the returned filename with a record carrying that project_id.
C1_CreatedWhenUnseen ==
    [][(/\ IntakeStep
        /\ ValidPush(last')
        /\ PushedPid(last') # EmptyStr
        /\ WithPid(store[PushedMode(last')], PushedPid(last')) = {})
       => /\ last'.status = 200
          /\ last'.action = "created"
          /\ \E i \in 1..Len(store'[PushedMode(last')]) :
                /\ store'[PushedMode(last')][i].name = last'.filename
                /\ PidOf(store'[PushedMode(last')][i]) = PushedPid(last')]_vars

C1_Witness ==
    /\ last.op = "update_token" /\ last.status = 200 /\ last.action = "created"
    /\ PushedPid(last) = P2
    /\ ReadsOk(last) /\ Len(last.reads) = 1
    /\ Len(store[PushedMode(last)]) = 2
    /\ \E i \in WithPid(store[PushedMode(last)], P2) :
          store[PushedMode(last)][i].name = last.filename

\* C2: a valid push whose non-empty project_id is that of a record the scan
\* reads is answered "updated" with that record's filename, whatever
\* filename the request supplied, and the record stored under it is then
\* exactly the pushed one.
C2_UpdatedWhenSeen ==
    [][(/\ IntakeStep
        /\ ValidPush(last')
        /\ PushedPid(last') # EmptyStr
        /\ \E i \in WithPid(store[PushedMode(last')], PushedPid(last')) :
              last'.reads[i] = "ok")
       => /\ last'.status = 200
          /\ last'.action = "updated"
          /\ \E i \in WithPid(store[PushedMode(last')], PushedPid(last')) :
                /\ last'.reads[i] = "ok"
                /\ store[PushedMode(last')][i].name = last'.filename
                /\ store'[PushedMode(last')][i].name = last'.filename
                /\ store'[PushedMode(last')][i].cred = Pushed(last')]_vars

C2_Witness ==
    /\ last.op = "update_token" /\ last.status = 200 /\ last.action = "updated"
    /\ "filename" \in DOMAIN last.req.body
    /\ last.filename # ResolveFilename(last.req.body, Pushed(last), now)
    /\ "token" \notin DOMAIN Pushed(last)
    /\ Holds(store[PushedMode(last)], last.filename, Pushed(last))

\* C3: the same valid push, with a non-empty project_id the mode does not
\* hold, handled twice in a row with every read succeeding: the first
\* answer is "created", the second "updated" with the first's filename,
\* and the mode then holds exactly one record with that project_id.
C3_Idempotent ==
    [][/\ (/\ IntakeStep /\ ValidPush(last') /\ ReadsOk(last')
           /\ PushedPid(last') # EmptyStr
           /\ WithPid(store[PushedMode(last')], PushedPid(last')) = {})
          => (last'.status = 200 /\ last'.action = "created")
       /\ (/\ last.op = "update_token" /\ ValidPush(last) /\ ReadsOk(last)
           /\ last.action = "created" /\ PushedPid(last) # EmptyStr
           /\ IntakeStep /\ last'.req = last.req /\ ReadsOk(last'))
          => /\ last'.status = 200
             /\ last'.action = "updated"
             /\ last'.filename = last.filename
             /\ Cardinality(WithPid(store'[PushedMode(last')], PushedPid(last'))) = 1]_vars

C3_Witness ==
    /\ last.op = "update_token" /\ last.status = 200 /\ last.action = "updated"
    /\ ReadsOk(last)
    /\ "filename" \notin DOMAIN last.req.body
    /\ now = 1
    /\ last.filename = ResolveFilename(last.req.body, Pushed(last), 0)
    /\ Cardinality(WithPid(store[PushedMode(last)], PushedPid(last))) = 1
    /\ Holds(store[PushedMode(last)], last.filename, Pushed(last))

\* C4: an intake whose reads all succeed keeps every mode partition free
\* of two records with the same non-empty project_id.
C4_UniquePidsKept ==
    [][(UniquePids(store) /\ IntakeStep /\ ReadsOk(last')) => UniquePids(store')]_vars

C4_Witness ==
    /\ last.op = "update_token" /\ last.status = 200 /\ ReadsOk(last)
    /\ Len(last.reads) = 1
    /\ \E m \in Modes :
          /\ Len(store[m]) = 2
          /\ PidOf(store[m][1]) # EmptyStr
          /\ PidOf(store[m][2]) # EmptyStr
    /\ UniquePids(store)

IsQueryAnswer == last.op = "check_tokens" /\ last.status = 200
Listed == store[PushedMode(last)]          \* the listing the last request saw
EntryOf(t) == CHOOSE i \in 1..Len(Listed) : Listed[i].name = t.filename

\* What an expiry text says, read as the specification reads it: a date-time,
\* with an offset, a "Z" or nothing (UTC) after it, denotes an instant; any
\* other text does not parse.
Parses(text) ==
    /\ Len(text) \in {1, 2}
    /\ text[1].k = "dt"
    /\ Len(text) = 2 => text[2].k \in {"off", "Z"}
InstantOf(text) == text[1].v - (IF Len(text) = 2 THEN text[2].v ELSE 0)
StaleAt(cred, t) ==
    \/ "expiry" \notin DOMAIN cred
    \/ cred["expiry"] = EmptyStr
    \/ ~Parses(cred["expiry"])
    \/ InstantOf(cred["expiry"]) - t < 300

\* C6: in an answered query, the summary of every listed file whose record
\* was read has needs_refresh true when the record's expiry is absent, empty
\* or unparsable or lies less than 300 seconds after the time of the query,
\* and false otherwise.
C6_NeedsRefreshByExpiry ==
    IsQueryAnswer =>
        \A k \in 1..Len(last.tokens) :
            last.reads[EntryOf(last.tokens[k])] = "ok" =>
                (last.tokens[k].needs_refresh
                    <=> StaleAt(Listed[EntryOf(last.tokens[k])].cred, last.at))

\* C7: in an answered query, the summary of a listed file whose record the
\* store did not return has needs_refresh true.
C7_AbsentRecordNeedsRefresh ==
    IsQueryAnswer =>
        \A k \in 1..Len(last.tokens) :
            last.reads[EntryOf(last.tokens[k])] = "none" => last.tokens[k].needs_refresh

\* C8: needs_refresh_emails is the emails of the summaries with
\* needs_refresh, is_active and a non-empty email, one entry each, in the
\* order of the tokens list.
FlaggedAt(tokens) ==
    {i \in 1..Len(tokens) :
        tokens[i].needs_refresh /\ tokens[i].is_active /\ tokens[i].email # EmptyStr}
Nth(S, k) == CHOOSE i \in S : Cardinality({j \in S : j <= i}) = k

C8_EmailsAreFlaggedInOrder ==
    IsQueryAnswer =>
        /\ Len(last.emails) = Cardinality(FlaggedAt(last.tokens))
        /\ \A k \in 1..Len(last.emails) :
              last.emails[k] = last.tokens[Nth(FlaggedAt(last.tokens), k)].email

C8_Witness ==
    /\ IsQueryAnswer
    /\ Len(last.tokens) = 2
    /\ ~last.tokens[1].is_active /\ last.tokens[1].needs_refresh
    /\ last.tokens[1].email # EmptyStr
    /\ last.emails = <<E2>>

(***************************************************************************)
(* Properties of the secret check.                                         *)
(***************************************************************************)
Guarded == last.op \in {"update_token", "check_tokens"}

\* C9: with no secret configured, every intake and every query is answered
\* 503, whatever its body and the secret it presents, and reads and writes
\* nothing in the store.
C9_UnconfiguredIs503 ==
    (Guarded /\ plugin_token = EmptyStr) =>
        (last.status = 503 /\ last.reads = <<>> /\ StoreSize = 0)

\* C10: with a secret configured, a request with a well-formed body is
\* answered 401 unless the secret it presents is non-empty and equal to the
\* configured one; the presented secret is the text after "Bearer " when the
\* Authorization header starts with that, and the body's token field
\* otherwise.
BearerValue(auth) == [i \in 1..(Len(auth) - 7) |-> auth[i + 7]]
HasBearer(auth) == Len(auth) >= 7 /\ \A i \in 1..7 : auth[i] = BEARER[i]
Presents(req) ==
    IF HasBearer(req.auth) THEN BearerValue(req.auth)
    ELSE IF "token" \in DOMAIN req.body THEN req.body["token"] ELSE EmptyStr

C10_AuthIffSecretMatches ==
    (Guarded /\ plugin_token # EmptyStr /\ last.req.parsable) =>
        /\ last.status \in {200, 400, 401}
        /\ last.status # 401 <=> (Presents(last.req) # EmptyStr
                                   /\ Presents(last.req) = plugin_token)

C10_Witness ==
    /\ last.op = "update_token" /\ last.status = 401
    /\ plugin_token = SECRET
    /\ last.req.auth = BEARER \o WRONG
    /\ Get(last.req.body, "token", EmptyStr) = SECRET
    /\ Has(last.req.body, "refresh_token")

(***************************************************************************)
(* Properties of the query's reads.                                        *)
(***************************************************************************)
\* the listed entries whose reads in the last request did not raise
ReadAt(r) == {i \in 1..Len(Listed) : r.reads[i] # "raise"}

\* C11: an authenticated query is answered 200 whatever reads raise, and its
\* tokens list names exactly the listed files whose reads did not raise,
\* once each and in listing order.
C11_FailedReadsAreOmitted ==
    last.op = "check_tokens" =>
        /\ last.status = 200
        /\ Len(last.tokens) = Cardinality(ReadAt(last))
        /\ \A k \in 1..Len(last.tokens) :
              last.tokens[k].filename = Listed[Nth(ReadAt(last), k)].name

C11_Witness ==
    /\ IsQueryAnswer
    /\ Len(Listed) = 2
    /\ last.reads[1] = "raise"
    /\ Len(last.tokens) = 1
    /\ last.tokens[1].filename = Listed[2].name

(***************************************************************************)
(* SpecMode: intakes, queries and status requests carrying every kind of   *)
(* mode field, to servers with and without a configured secret, over       *)
(* stores that already hold a record (with its runtime state) in one       *)
(* partition.                                                              *)
(***************************************************************************)
ModeFields == Opt("mode", {"geminicli", "antigravity", "other"})

Stored(name, pid, email) ==
    [name |-> name, cred |-> Identity @@ ("project_id" :> pid),
     state |-> RuntimeState(email, FALSE)]

ModeStores ==
    {[m \in Modes |-> <<>>]}
    \cup {[m \in Modes |-> IF m = held THEN <<Stored(FileName(1), P1, E1)>> ELSE <<>>] :
             held \in Modes}

ModeIntakeRequests ==
    {Request(EmptyStr, ("token" :> SECRET) @@ ("credential" :> c) @@ m) :
        c \in {Identity @@ ("project_id" :> P1) @@ ("token" :> <<"t">>)}, m \in ModeFields}
    \cup {Request(EmptyStr, ("token" :> WRONG) @@ ("credential" :> Identity)),
          Request(BEARER \o SECRET, ("credential" :> ("client_id" :> CID)) @@ ("mode" :> "other")),
          Malformed(BEARER \o SECRET)}

ModeQueryRequests ==
    {Request(EmptyStr, ("token" :> SECRET) @@ m) : m \in ModeFields}
    \cup {Request(BEARER \o WRONG, "mode" :> "antigravity"), Malformed(BEARER \o SECRET)}

InitMode ==
    /\ plugin_token \in {EmptyStr, SECRET}
    /\ store \in ModeStores
    /\ now = 0
    /\ last = NoResponse
    /\ calls = NoCalls

NextMode ==
    \/ \E req \in ModeIntakeRequests :
         \E reads \in ReadOutcomes(ScanLength(req), {"raise"}) :
            update_token(req, reads)
    \/ \E req \in ModeQueryRequests :
         \E reads \in ReadOutcomes(Len(store[ResolveMode(req.body)]), {"none", "raise"}) :
            check_tokens(req, reads)
    \/ plugin_status

SpecMode == InitMode /\ [][NextMode]_vars

(***************************************************************************)
(* Properties of the mode.                                                 *)
(***************************************************************************)
\* the partition a body names: antigravity when its mode field says so,
\* geminicli for every other body
ModeOf(body) ==
    IF "mode" \in DOMAIN body /\ body["mode"] = "antigravity"
    THEN "antigravity" ELSE "geminicli"
OtherMode(m) == IF m = "antigravity" THEN "geminicli" ELSE "antigravity"
QueryStep == now' = now /\ last'.op = "check_tokens"
BodyOf(r) == IF r.req.parsable THEN r.req.body ELSE EmptyDict

\* C12: a valid push is answered 200 whatever its mode field; it leaves the
\* partition its body does not name as it was, stores the record in the one
\* it names, and is "updated" exactly when a record read from that
\* partition has the pushed non-empty project_id.  An answered query lists
\* the files of the partition its body names.
C12_ModeSelectsPartition ==
    [][/\ (IntakeStep /\ ValidPush(last')) =>
            LET m == ModeOf(last'.req.body) IN
            /\ last'.status = 200
            /\ store'[OtherMode(m)] = store[OtherMode(m)]
            /\ Holds(store'[m], last'.filename, Pushed(last'))
            /\ last'.action = "updated" <=>
                  /\ PushedPid(last') # EmptyStr
                  /\ \E i \in WithPid(store[m], PushedPid(last')) : last'.reads[i] = "ok"
       /\ (QueryStep /\ last'.status = 200) =>
            LET l == store[ModeOf(BodyOf(last'))] IN
            /\ Len(last'.reads) = Len(l)
            /\ \A k \in 1..Len(last'.tokens) :
                  \E i \in 1..Len(l) : l[i].name = last'.tokens[k].filename]_vars

C12_Witness ==
    /\ last.op = "update_token" /\ last.status = 200 /\ last.action = "created"
    /\ Get(last.req.body, "mode", "geminicli") = "other"
    /\ Holds(store["geminicli"], last.filename, Pushed(last))
    /\ WithPid(store["antigravity"], PushedPid(last)) # {}
    /\ ~Holds(store["antigravity"], last.filename, Pushed(last))

(***************************************************************************)
(* SpecRace: two intakes in flight at once, over a store that is empty or  *)
(* holds one record.                                                       *)
(***************************************************************************)
RaceRequests ==
    {Request(BEARER \o SECRET, ("credential" :> (Identity @@ ("project_id" :> pid))) @@ f) :
        pid \in {P1, P2}, f \in Opt("filename", {<<"a">>, <<"b">>})}

RaceStores ==
    {[m \in Modes |-> <<>>],
     [m \in Modes |-> IF m = "geminicli" THEN <<Stored(FileName(1), P2, E1)>> ELSE <<>>]}

InitRace ==
    /\ plugin_token = SECRET
    /\ store \in RaceStores
    /\ now = 0
    /\ last = NoResponse
    /\ calls = NoCalls

NextRace ==
    \/ \E p \in Procs : \E req \in RaceRequests :
         \E reads \in ReadOutcomes(ScanLength(req), {"raise"}) :
            scan_update_token(p, req, reads)
    \/ \E p \in Procs : write_update_token(p)
    \/ Tick

SpecRace == InitRace /\ [][NextRace]_vars

(***************************************************************************)
(* Properties of intakes in flight together.                               *)
(***************************************************************************)
CallPid(c) == Get(c.credential, "project_id", EmptyStr)
\* both calls have answered, and the scans of both came before either write
BothScannedFirst ==
    /\ \A p \in Procs : calls[p].pc = "done"
    /\ \E p \in Procs : calls[p].raced

\* C13: two pushes of one non-empty project_id to one mode, neither of
\* which wrote before the other had scanned, to a partition that held no
\* record with that project_id: both found no match and both answered
\* "created"; if they wrote different filenames the partition holds two
\* records with that project_id.
C13_RaceCreatesTwice ==
    (/\ BothScannedFirst
     /\ CallPid(calls[1]) # EmptyStr
     /\ CallPid(calls[1]) = CallPid(calls[2])
     /\ calls[1].mode = calls[2].mode
     /\ \A p \in Procs : ~calls[p].held)
    => /\ \A p \in Procs : ~calls[p].updated_existing /\ calls[p].action = "created"
       /\ calls[1].filename # calls[2].filename =>
             /\ Cardinality(WithPid(store[calls[1].mode], CallPid(calls[1]))) = 2
             /\ ~UniquePids(store)

C13_Witness ==
    /\ BothScannedFirst
    /\ \A p \in Procs : calls[p].action = "created" /\ ReadsOk(calls[p])
    /\ CallPid(calls[1]) = P1 /\ CallPid(calls[2]) = P1
    /\ calls[1].filename # calls[2].filename
    /\ "filename" \notin DOMAIN calls[1].req.body
    /\ WithPid(store["geminicli"], P1) = {1, 2}

(***************************************************************************)
(* Properties of the dedup scan.                                           *)
(***************************************************************************)
\* the listed records of the pushed mode that have the pushed project_id
\* and whose read in request r returned
ReadableMatches(r, st) ==
    {i \in WithPid(st[PushedMode(r)], PushedPid(r)) : r.reads[i] = "ok"}
Earliest(S) == CHOOSE i \in S : \A j \in S : i <= j

\* C14: a valid push whose non-empty project_id is that of one or more
\* records the scan reads is "updated" under the filename of the earliest
\* of them in listing order; that entry alone is written, every other entry
\* of both partitions staying as it was.
C14_FirstMatchWins ==
    [][(/\ IntakeStep
        /\ ValidPush(last')
        /\ PushedPid(last') # EmptyStr
        /\ ReadableMatches(last', store) # {})
       => LET m == PushedMode(last')
              first == Earliest(ReadableMatches(last', store))
          IN  /\ last'.action = "updated"
              /\ last'.filename = store[m][first].name
              /\ Len(store'[m]) = Len(store[m])
              /\ store'[m][first] = [store[m][first] EXCEPT !.cred = Pushed(last')]
              /\ \A j \in 1..Len(store[m]) : j # first => store'[m][j] = store[m][j]
              /\ store'[OtherMode(m)] = store[OtherMode(m)]]_vars

C14_Witness ==
    /\ last.op = "update_token" /\ last.status = 200 /\ last.action = "updated"
    /\ ReadsOk(last)
    /\ WithPid(store[PushedMode(last)], PushedPid(last)) = {1, 2}
    /\ last.filename = store[PushedMode(last)][1].name
    /\ store[PushedMode(last)][1].cred = Pushed(last)
    /\ store[PushedMode(last)][2].cred # Pushed(last)

\* C15: a valid push with a non-empty project_id, one of whose scan reads
\* raises, is answered 200.  If no record that was read has the project_id
\* it is "created" and stored under the filename resolved from the request,
\* whatever the unread record holds; if one has, before or after the read
\* that raised, it is "updated" under that record's filename.
C15_RaisedReadIsSkipped ==
    [][(/\ IntakeStep
        /\ ValidPush(last')
        /\ PushedPid(last') # EmptyStr
        /\ \E i \in 1..Len(store[PushedMode(last')]) : last'.reads[i] = "raise")
       => LET m == PushedMode(last')
              hits == ReadableMatches(last', store)
          IN  /\ last'.status = 200
              /\ Len(last'.reads) = Len(store[m])
              /\ Holds(store'[m], last'.filename, Pushed(last'))
              /\ hits = {} =>
                    /\ last'.action = "created"
                    /\ last'.filename =
                          ResolveFilename(last'.req.body, Pushed(last'), now)
              /\ hits # {} =>
                    /\ last'.action = "updated"
                    /\ last'.filename = store[m][Earliest(hits)].name]_vars

C15_Witness ==
    /\ last.op = "update_token" /\ last.status = 200 /\ last.action = "created"
    /\ last.reads = <<"raise">>
    /\ Len(store[PushedMode(last)]) = 2
    /\ PidOf(store[PushedMode(last)][1]) = PushedPid(last)
    /\ store[PushedMode(last)][2].name = last.filename
    /\ last.filename = ResolveFilename(last.req.body, Pushed(last), now)
    /\ ~UniquePids(store)

(***************************************************************************)
(* SpecNames: pushes that leave the filename to be derived, with and       *)
(* without a name prefix and a project_id, as the clock advances.          *)
(***************************************************************************)
RTOK2 == <<"s">>

NameCreds ==
    {Identity,
     ("client_id" :> CID) @@ ("refresh_token" :> RTOK2),
     Identity @@ ("project_id" :> P1),
     ("client_id" :> CID) @@ ("refresh_token" :> RTOK2) @@ ("project_id" :> P2)}

NameRequests ==
    {Request(BEARER \o SECRET, ("credential" :> c) @@ n) :
        c \in NameCreds, n \in Opt("name", {<<"n">>})}
    \cup {Request(BEARER \o SECRET, ("credential" :> Identity) @@ ("filename" :> <<"a">>))}

InitNames ==
    /\ plugin_token = SECRET
    /\ store = [m \in Modes |-> <<>>]
    /\ now = 0
    /\ last = NoResponse
    /\ calls = NoCalls

NextNames ==
    \/ \E req \in NameRequests :
         \E reads \in ReadOutcomes(ScanLength(req), {"raise"}) :
            update_token(req, reads)
    \/ Tick

SpecNames == InitNames /\ [][NextNames]_vars

(***************************************************************************)
(* Properties of the derived filename.                                     *)
(***************************************************************************)
\* an answered push that supplied no filename, and the filename derived for it
DerivedPush(r) ==
    /\ r.op = "update_token" /\ r.status = 200
    /\ Get(r.req.body, "filename", EmptyStr) = EmptyStr
DerivedName(r) == ResolveFilename(r.req.body, Pushed(r), r.at)

\* C16: of two pushes handled one after the other, with different bodies
\* and no supplied filename, the second's derived filename differs from the
\* first's.
C16_DerivedNamesDiffer ==
    [][(DerivedPush(last) /\ IntakeStep /\ DerivedPush(last') /\ last'.req # last.req)
       => DerivedName(last') # DerivedName(last)]_vars

(***************************************************************************)
(* SpecShape: the shapes of an intake body: a nested credential with and   *)
(* without top-level credential fields beside it, an empty nested          *)
(* credential, flattened fields (some empty, some not credential fields),  *)
(* and bodies with no credential at all.                                   *)
(***************************************************************************)
CID2 == <<"d">>
TopFields == ("client_id" :> CID2) @@ ("refresh_token" :> RTOK2) @@ ("project_id" :> P2)

ShapeBodies ==
    {("credential" :> (Identity @@ ("project_id" :> P1))),
     ("credential" :> (Identity @@ ("project_id" :> P1))) @@ TopFields,
     ("credential" :> ("client_id" :> CID)) @@ TopFields,
     ("credential" :> EmptyDict) @@ TopFields,
     ("credential" :> EmptyDict) @@ ("name" :> <<"n">>),
     TopFields @@ ("expiry" :> EmptyStr) @@ ("name" :> <<"n">>),
     ("client_id" :> CID2) @@ ("refresh_token" :> EmptyStr) @@ ("project_id" :> P2),
     ("name" :> <<"n">>) @@ ("expiry" :> EmptyStr),
     EmptyDict}

ShapeRequests ==
    {Request(BEARER \o SECRET, b) : b \in ShapeBodies}
    \cup {Request(EmptyStr, ("token" :> SECRET) @@ b) : b \in ShapeBodies}

InitShape ==
    /\ plugin_token = SECRET
    /\ store = [m \in Modes |-> <<>>]
    /\ now = 0
    /\ last = NoResponse
    /\ calls = NoCalls

NextShape ==
    \/ \E req \in ShapeRequests :
         \E reads \in ReadOutcomes(ScanLength(req), {"raise"}) :
            update_token(req, reads)
    \/ Tick

SpecShape == InitShape /\ [][NextShape]_vars

(***************************************************************************)
(* Properties of the candidate record.                                     *)
(***************************************************************************)
\* the body's fields that carry a recognised credential field name and a
\* non-empty value
Projection(body) ==
    [k \in {f \in DOMAIN body :
               /\ f \in {"client_id", "client_secret", "refresh_token", "token",
                          "access_token", "scopes", "token_uri", "project_id", "expiry"}
               /\ body[f] # EmptyStr} |-> body[k]]
Authenticated(r) ==
    /\ r.req.parsable
    /\ plugin_token # EmptyStr
    /\ PresentedToken(r.req.auth, r.req.body) = plugin_token

\* C17: an authenticated intake whose body has a nested credential object
\* stores, if it stores anything, that object as it is; one whose body has
\* none stores the body's recognised non-empty fields; and one with no
\* non-empty nested object and no such field is answered 400.
C17_NestedCredentialVerbatim ==
    [][(IntakeStep /\ Authenticated(last')) =>
          LET body == last'.req.body
              m == PushedMode(last')
          IN  /\ ("credential" \in DOMAIN body /\ last'.status = 200) =>
                    Holds(store'[m], last'.filename, body["credential"])
              /\ ("credential" \notin DOMAIN body /\ last'.status = 200) =>
                    Holds(store'[m], last'.filename, Projection(body))
              /\ (/\ "credential" \in DOMAIN body => body["credential"] = EmptyDict
                  /\ Projection(body) = EmptyDict) => last'.status = 400]_vars

(***************************************************************************)
(* Properties of what a request leaves alone.                              *)
(***************************************************************************)
Keys(listing) == {listing[i].name : i \in 1..Len(listing)}

\* C18: an intake answered 200 leaves the other partition as it was and, in
\* its own, every entry but the one under the returned filename: that one
\* keeps its place and its runtime state, or is the one new entry of the
\* listing.  An intake answered 400, 401 or 503, a query and a status
\* request leave the whole store as it was.
C18_OnlyTheReturnedKeyChanges ==
    [][/\ (IntakeStep /\ last'.status = 200) =>
            LET m == PushedMode(last')
                f == last'.filename
            IN  /\ store'[OtherMode(m)] = store[OtherMode(m)]
                /\ Keys(store'[m]) = Keys(store[m]) \cup {f}
                /\ Len(store'[m]) = Cardinality(Keys(store[m]) \cup {f})
                /\ \A i \in 1..Len(store[m]) :
                      IF store[m][i].name = f
                      THEN /\ store'[m][i].name = f
                           /\ store'[m][i].state = store[m][i].state
                      ELSE store'[m][i] = store[m][i]
       /\ (IntakeStep /\ last'.status \in {400, 401, 503}) => store' = store
       /\ (now' = now /\ last'.op \in {"check_tokens", "plugin_status"}) => store' = store]_vars

C18_Witness ==
    /\ last.op = "update_token" /\ last.status = 200 /\ last.action = "updated"
    /\ Len(store[PushedMode(last)]) = 2
    /\ store[PushedMode(last)][1] =
          [name |-> last.filename, cred |-> Pushed(last), state |-> RuntimeState(E1, FALSE)]
    /\ store[PushedMode(last)][2].name # last.filename
    /\ Len(store[OtherMode(PushedMode(last))]) = 0

(***************************************************************************)
(* Properties of what a create may replace, and of what is stored.         *)
(***************************************************************************)
\* C19: an intake answered "created" stores under a filename that was not
\* a key of the resolved mode's partition before.
C19_CreatedNeverOverwrites ==
    [][(IntakeStep /\ last'.status = 200 /\ last'.action = "created")
       => last'.filename \notin Keys(store[PushedMode(last')])]_vars

\* C20: no field of a stored record has the configured secret as its value.
C20_SecretNotStored ==
    \A m \in Modes : \A i \in 1..Len(store[m]) :
        \A k \in DOMAIN store[m][i].cred : store[m][i].cred[k] # plugin_token

====
